---- MODULE Spec2Model ----
(***************************************************************************)
(* Model of twitchchat's encoder (src/src/encoder.rs) and of the chat      *)
(* commands give_mod, unmod, unvip and raid (src/src/commands/*.rs).       *)
(*                                                                         *)
(* Bytes are one-character strings; a byte string is a sequence of them.   *)
(* A writer is [out, flushCalls, flushed]: the bytes it has accepted, the  *)
(* number of flush calls it has received, and how many of its bytes were   *)
(* covered by its last successful flush.                                   *)
(***************************************************************************)
EXTENDS Integers, Sequences, FiniteSets, TLC

VARIABLES
    kind,      \* "sync" (Encoder<W>) or "async" (AsyncEncoder<W>)
    writer,    \* the wrapped writer W
    pos,       \* AsyncEncoder.pos
    data,      \* AsyncEncoder.data
    alive,     \* FALSE once into_inner has consumed the encoder
    ops,       \* number of calls made so far
    fails,     \* number of I/O errors the writer has produced so far
    last,      \* the last call: its method, argument, I/O outcome, result, and the
               \* writer and buffer it started from
    expect,    \* concatenation of the encodings of the messages encoded so far
    seqOk,     \* every call so far was an encode call that returned Ok
    cmdIn,     \* the arguments handed to a command constructor
    cmdVal,    \* the command value the constructor returned
    wire       \* the bytes cmdVal.encode wrote into a Vec<u8>

vars == <<kind, writer, pos, data, alive, ops, fails, last, expect, seqOk,
          cmdIn, cmdVal, wire>>

encVars == <<kind, writer, pos, data, alive, ops, fails, last, expect, seqOk>>
cmdVars == <<cmdIn, cmdVal, wire>>

(***************************************************************************)
(* Bounds.                                                                 *)
(***************************************************************************)
MaxLen == 2     \* longest channel / argument string handed to a constructor
MaxOps == 2     \* calls made on one encoder
MaxFail == 2    \* I/O errors the writer produces

Chars == {"#", "a", "\r", "\n"}

Strs(n) == UNION {[1..k -> Chars] : k \in 0..n}

(***************************************************************************)
(* Byte-string literals.                                                   *)
(***************************************************************************)
PRIVMSG_SP == <<"P", "R", "I", "V", "M", "S", "G", " ">>
SP_COLON == <<" ", ":">>
SP == <<" ">>
CRLF == <<"\r", "\n">>
HASH == <<"#">>
SLASH_MOD == <<"/", "m", "o", "d">>
SLASH_UNMOD == <<"/", "u", "n", "m", "o", "d">>
SLASH_UNVIP == <<"/", "u", "n", "v", "i", "p">>
SLASH_RAID == <<"/", "r", "a", "i", "d">>

None == [kind |-> "None"]

starts_with_hash(s) == Len(s) > 0 /\ s[1] = "#"

(***************************************************************************)
(* commands/mod.rs (not among the sources): the channel helpers, the       *)
(* ByteWriter and the write_cmd! macro, after spec sections 4.4 and 8.     *)
(***************************************************************************)
make_channel(input) == IF starts_with_hash(input) THEN input ELSE HASH \o input

Channel(input) == IF starts_with_hash(input) THEN input ELSE HASH \o input

RECURSIVE JoinParts(_)
JoinParts(parts) ==
    IF Len(parts) = 0 THEN <<>>
    ELSE IF Len(parts) = 1 THEN parts[1]
    ELSE parts[1] \o SP \o JoinParts(Tail(parts))

ByteWriter_command(channel, parts) ==
    PRIVMSG_SP \o make_channel(channel) \o SP_COLON \o JoinParts(parts) \o CRLF

write_cmd(chan, body) == PRIVMSG_SP \o chan \o SP_COLON \o body \o CRLF

(***************************************************************************)
(* The command constructors and their Encodable implementations.           *)
(***************************************************************************)
give_mod(channel, username) ==
    [kind |-> "GiveMod", channel |-> make_channel(channel), username |-> username]

unmod(channel, username) ==
    [kind |-> "Unmod", channel |-> channel, username |-> username]

unvip(channel, username) ==
    [kind |-> "Unvip", channel |-> make_channel(channel), username |-> username]

raid(source, target) ==
    [kind |-> "Raid", source |-> source, target |-> target]

Bytes(b) == [kind |-> "Bytes", bytes |-> b]

GiveMod_encode(self) == ByteWriter_command(self.channel, <<SLASH_MOD, self.username>>)

\* Unmod::encode without the Channel wrapper.
Unmod_encode_raw(self) == write_cmd(self.channel, SLASH_UNMOD \o SP \o self.username)

Unmod_encode(self) == write_cmd(Channel(self.channel), SLASH_UNMOD \o SP \o self.username)

Unvip_encode(self) == ByteWriter_command(self.channel, <<SLASH_UNVIP, self.username>>)

\* Raid::encode handing "/raid" and the target over as one part.
Raid_encode_glued(self) == ByteWriter_command(self.source, <<SLASH_RAID \o self.target>>)

Raid_encode(self) == ByteWriter_command(self.source, <<SLASH_RAID, self.target>>)

\* A byte-slice impl that terminates the line itself.
Bytes_encode_crlf(self) == self.bytes \o CRLF

Bytes_encode(self) == self.bytes

\* Encodable::encode: the bytes the value writes into the sink when no write fails.
Encodable_encode(msg) ==
    CASE msg.kind = "GiveMod" -> GiveMod_encode(msg)
      [] msg.kind = "Unmod" -> Unmod_encode(msg)
      [] msg.kind = "Unvip" -> Unvip_encode(msg)
      [] msg.kind = "Raid" -> Raid_encode(msg)
      [] msg.kind = "Bytes" -> Bytes_encode(msg)

(***************************************************************************)
(* The command constructors applied to bounded inputs (SpecCmd).           *)
(***************************************************************************)
CmdFns == {"give_mod", "unmod", "unvip", "raid"}

NoInput == [fn |-> "none", channel |-> <<>>, arg |-> <<>>]

CmdInputs == [fn : CmdFns, channel : Strs(MaxLen), arg : Strs(MaxLen)]

Construct(fn, channel, arg) ==
    CASE fn = "give_mod" -> give_mod(channel, arg)
      [] fn = "unmod" -> unmod(channel, arg)
      [] fn = "unvip" -> unvip(channel, arg)
      [] fn = "raid" -> raid(channel, arg)

InitCmd ==
    /\ cmdIn \in CmdInputs
    /\ cmdVal = None
    /\ wire = <<>>
    /\ kind = "sync"
    /\ writer = [out |-> <<>>, flushCalls |-> 0, flushed |-> 0]
    /\ pos = 0
    /\ data = <<>>
    /\ alive = FALSE
    /\ ops = 0
    /\ fails = 0
    /\ last = [op |-> "new", msg |-> None, res |-> "Ok", fail |-> "none",
               pre |-> [out |-> <<>>, flushCalls |-> 0, flushed |-> 0],
               preData |-> <<>>, prePos |-> 0]
    /\ expect = <<>>
    /\ seqOk = TRUE

Call_give_mod ==
    /\ cmdVal = None /\ cmdIn.fn = "give_mod"
    /\ cmdVal' = give_mod(cmdIn.channel, cmdIn.arg)
    /\ UNCHANGED <<cmdIn, wire>> /\ UNCHANGED encVars

Call_unmod ==
    /\ cmdVal = None /\ cmdIn.fn = "unmod"
    /\ cmdVal' = unmod(cmdIn.channel, cmdIn.arg)
    /\ UNCHANGED <<cmdIn, wire>> /\ UNCHANGED encVars

Call_unvip ==
    /\ cmdVal = None /\ cmdIn.fn = "unvip"
    /\ cmdVal' = unvip(cmdIn.channel, cmdIn.arg)
    /\ UNCHANGED <<cmdIn, wire>> /\ UNCHANGED encVars

Call_raid ==
    /\ cmdVal = None /\ cmdIn.fn = "raid"
    /\ cmdVal' = raid(cmdIn.channel, cmdIn.arg)
    /\ UNCHANGED <<cmdIn, wire>> /\ UNCHANGED encVars

\* cmd.encode(&mut vec): a Vec<u8> sink never fails, so all bytes arrive.
Cmd_encode ==
    /\ cmdVal # None /\ wire = <<>>
    /\ wire' = Encodable_encode(cmdVal)
    /\ UNCHANGED <<cmdIn, cmdVal>> /\ UNCHANGED encVars

NextCmd == Call_give_mod \/ Call_unmod \/ Call_unvip \/ Call_raid \/ Cmd_encode

SpecCmd == InitCmd /\ [][NextCmd]_vars

(***************************************************************************)
(* The writer W.  An I/O call either succeeds or fails; write_all that     *)
(* fails has handed the sink some proper prefix of its buffer.             *)
(***************************************************************************)
NewWriter == [out |-> <<>>, flushCalls |-> 0, flushed |-> 0]

NoFail == [fail |-> "none", k |-> 0]

\* What the I/O of one call may do, given the bytes its write_all is handed.
Outcomes(buf) ==
    {NoFail}
      \cup (IF fails < MaxFail
            THEN {[fail |-> "flush", k |-> 0]}
                   \cup {[fail |-> "write", k |-> i] : i \in 0..(Len(buf) - 1)}
            ELSE {})

Write_write_all(w, buf, o) ==
    IF o.fail = "write"
    THEN [w EXCEPT !.out = @ \o SubSeq(buf, 1, o.k)]
    ELSE [w EXCEPT !.out = @ \o buf]

Write_flush(w, o) ==
    [w EXCEPT !.flushCalls = @ + 1,
              !.flushed = IF o.fail = "flush" THEN @ ELSE Len(w.out)]

(***************************************************************************)
(* Encoder<W>.                                                             *)
(***************************************************************************)
\* Encoder::encode flushing before it writes.
Encoder_encode_flush_first(w, msg, o) ==
    LET w0 == Write_flush(w, o)
        w1 == Write_write_all(w0, Encodable_encode(msg), o)
    IN  [writer |-> w1, res |-> IF o.fail = "none" THEN "Ok" ELSE "Err"]

Encoder_encode(w, msg, o) ==
    LET w1 == Write_write_all(w, Encodable_encode(msg), o)
    IN  IF o.fail = "write"
        THEN [writer |-> w1, res |-> "Err"]
        ELSE [writer |-> Write_flush(w1, o),
              res |-> IF o.fail = "flush" THEN "Err" ELSE "Ok"]

(***************************************************************************)
(* AsyncEncoder<W>: self is [writer, pos, data].                           *)
(***************************************************************************)
AsyncEncoder_new(w) == [writer |-> w, pos |-> 0, data |-> <<>>]

AsyncEncoder_clone(self) == [writer |-> self.writer, pos |-> 0, data |-> <<>>]

\* msg.encode(&mut self.data): Vec<u8> appends and never fails.
Vec_extend(d, msg) == d \o Encodable_encode(msg)

\* &self.data[self.pos..]
Slice(d, p) == SubSeq(d, p + 1, Len(d))

\* The clear left out.
Vec_clear_noop(d) == d

\* self.data.clear()
Vec_clear(d) == <<>>

\* pos taken from the length of the buffer that was just written.
ResetPos_len(d) == Len(d)

\* self.pos = 0
ResetPos(d) == 0

AsyncEncoder_encode(self, msg, o) ==
    LET d1 == Vec_extend(self.data, msg)
        w1 == Write_write_all(self.writer, Slice(d1, self.pos), o)
    IN  IF o.fail = "write"
        THEN [writer |-> w1, pos |-> self.pos, data |-> d1, res |-> "Err"]
        ELSE IF o.fail = "flush"
        THEN [writer |-> Write_flush(w1, o), pos |-> self.pos, data |-> d1,
              res |-> "Err"]
        ELSE [writer |-> Write_flush(w1, o), pos |-> ResetPos(d1),
              data |-> Vec_clear(d1), res |-> "Ok"]

\* encode_sync writing the new message only and never clearing the buffer.
AsyncEncoder_encode_sync_keep(self, msg, o) ==
    LET d1 == Vec_extend(self.data, msg)
        w1 == Write_write_all(self.writer, Slice(d1, self.pos), o)
    IN  IF o.fail = "write"
        THEN [writer |-> w1, pos |-> self.pos, data |-> d1, res |-> "Err"]
        ELSE IF o.fail = "flush"
        THEN [writer |-> Write_flush(w1, o), pos |-> self.pos, data |-> d1,
              res |-> "Err"]
        ELSE [writer |-> Write_flush(w1, o), pos |-> self.pos, data |-> d1,
              res |-> "Ok"]

AsyncEncoder_encode_sync(self, msg, o) ==
    LET d1 == Vec_extend(self.data, msg)
        w1 == Write_write_all(self.writer, Slice(d1, self.pos), o)
    IN  IF o.fail = "write"
        THEN [writer |-> w1, pos |-> self.pos, data |-> d1, res |-> "Err"]
        ELSE IF o.fail = "flush"
        THEN [writer |-> Write_flush(w1, o), pos |-> self.pos, data |-> d1,
              res |-> "Err"]
        ELSE [writer |-> Write_flush(w1, o), pos |-> ResetPos(d1),
              data |-> Vec_clear(d1), res |-> "Ok"]

\* into_inner handing the writer back without draining the buffer.
AsyncEncoder_into_inner_drop(self, o) ==
    [writer |-> self.writer, pos |-> self.pos, data |-> <<>>,
     res |-> IF o.fail = "none" THEN "Ok" ELSE "Err"]

\* std::mem::take(&mut self.data) leaves an empty Vec behind.
AsyncEncoder_into_inner(self, o) ==
    IF Len(self.data) = 0
    THEN [writer |-> self.writer, pos |-> self.pos, data |-> self.data, res |-> "Ok"]
    ELSE LET w1 == Write_write_all(self.writer, self.data, o)
         IN  IF o.fail = "write"
             THEN [writer |-> w1, pos |-> self.pos, data |-> <<>>, res |-> "Err"]
             ELSE [writer |-> Write_flush(w1, o), pos |-> self.pos, data |-> <<>>,
                   res |-> IF o.fail = "flush" THEN "Err" ELSE "Ok"]

(***************************************************************************)
(* The encoder state machine (Spec): one encoder, built by new, then any   *)
(* calls on it until into_inner consumes it.                               *)
(***************************************************************************)
A == <<"a">>

Msgs ==
    {give_mod(A, A), Bytes(<<"a", "\n">>), Bytes(<<>>)}

WriteBufs == {A}


EncodeOps == {"encode", "encode_sync"}

Self == [writer |-> writer, pos |-> pos, data |-> data]

Init ==
    /\ kind \in {"sync", "async"}
    /\ writer = NewWriter
    /\ pos = AsyncEncoder_new(NewWriter).pos
    /\ data = AsyncEncoder_new(NewWriter).data
    /\ alive = TRUE
    /\ ops = 0
    /\ fails = 0
    /\ last = [op |-> "new", msg |-> None, res |-> "Ok", fail |-> "none",
               pre |-> NewWriter, preData |-> <<>>, prePos |-> 0]
    /\ expect = <<>>
    /\ seqOk = TRUE
    /\ cmdIn = NoInput
    /\ cmdVal = None
    /\ wire = <<>>

\* The call op(msg) met I/O outcome o and left r = [writer, pos, data, res].
Returns(op, msg, o, r, consumed) ==
    /\ writer' = r.writer
    /\ pos' = r.pos
    /\ data' = r.data
    /\ alive' = ~consumed
    /\ ops' = ops + 1
    /\ fails' = IF o.fail = "none" THEN fails ELSE fails + 1
    /\ last' = [op |-> op, msg |-> msg, res |-> r.res, fail |-> o.fail,
                pre |-> writer, preData |-> data, prePos |-> pos]
    /\ expect' = IF op \in EncodeOps /\ r.res = "Ok"
                 THEN expect \o Encodable_encode(msg) ELSE expect
    /\ seqOk' = (seqOk /\ op \in EncodeOps /\ r.res = "Ok")
    /\ UNCHANGED kind
    /\ UNCHANGED cmdVars

CanCall == alive /\ ops < MaxOps

EncoderEncode ==
    /\ CanCall /\ kind = "sync"
    /\ \E msg \in Msgs :
         \E o \in Outcomes(Encodable_encode(msg)) :
           LET r == Encoder_encode(writer, msg, o)
           IN  Returns("encode", msg, o,
                       [writer |-> r.writer, pos |-> pos, data |-> data, res |-> r.res],
                       FALSE)

AsyncEncode ==
    /\ CanCall /\ kind = "async"
    /\ \E msg \in Msgs :
         \E o \in Outcomes(Slice(Vec_extend(data, msg), pos)) :
           Returns("encode", msg, o, AsyncEncoder_encode(Self, msg, o), FALSE)

AsyncEncodeSync ==
    /\ CanCall /\ kind = "async"
    /\ \E msg \in Msgs :
         \E o \in Outcomes(Slice(Vec_extend(data, msg), pos)) :
           Returns("encode_sync", msg, o,
                   AsyncEncoder_encode_sync(Self, msg, o), FALSE)

\* Encoder::into_inner hands the writer back as it is.
EncoderIntoInner ==
    /\ CanCall /\ kind = "sync"
    /\ Returns("into_inner", None, NoFail,
               [writer |-> writer, pos |-> pos, data |-> data, res |-> "Ok"], TRUE)

AsyncIntoInner ==
    /\ CanCall /\ kind = "async"
    /\ \E o \in (IF Len(data) = 0 THEN {NoFail} ELSE Outcomes(data)) :
         Returns("into_inner", None, o, AsyncEncoder_into_inner(Self, o), TRUE)

\* Clone: the model follows the clone, whose writer is a copy of the writer.
EncoderClone ==
    /\ CanCall /\ kind = "sync"
    /\ Returns("clone", None, NoFail,
               [writer |-> writer, pos |-> pos, data |-> data, res |-> "Ok"], FALSE)

AsyncClone ==
    /\ CanCall /\ kind = "async"
    /\ LET c == AsyncEncoder_clone(Self)
       IN  Returns("clone", None, NoFail,
                   [writer |-> c.writer, pos |-> c.pos, data |-> c.data, res |-> "Ok"],
                   FALSE)

\* Write::write / AsyncWrite::poll_write on the encoder go straight to the writer,
\* which accepts some n <= len bytes or fails.
WriteThrough ==
    /\ CanCall
    /\ \E buf \in WriteBufs :
         \/ \E n \in 0..Len(buf) :
              Returns("write", Bytes(buf), NoFail,
                      [writer |-> [writer EXCEPT !.out = @ \o SubSeq(buf, 1, n)],
                       pos |-> pos, data |-> data, res |-> "Ok"], FALSE)
         \/ /\ fails < MaxFail
            /\ Returns("write", Bytes(buf), [fail |-> "write", k |-> 0],
                       [writer |-> writer, pos |-> pos, data |-> data, res |-> "Err"],
                       FALSE)

\* Write::flush / AsyncWrite::poll_flush on the encoder go straight to the writer.
FlushThrough ==
    /\ CanCall
    /\ \E o \in {x \in Outcomes(<<>>) : x.fail # "write"} :
         Returns("flush", None, o,
                 [writer |-> Write_flush(writer, o), pos |-> pos, data |-> data,
                  res |-> IF o.fail = "flush" THEN "Err" ELSE "Ok"], FALSE)

Next ==
    \/ EncoderEncode
    \/ AsyncEncode
    \/ AsyncEncodeSync
    \/ EncoderIntoInner
    \/ AsyncIntoInner
    \/ EncoderClone
    \/ AsyncClone
    \/ WriteThrough
    \/ FlushThrough

Spec == Init /\ [][Next]_vars

(***************************************************************************)
(* Properties.                                                             *)
(***************************************************************************)
\* The bytes the last call handed to the writer.
Handed == SubSeq(writer.out, Len(last.pre.out) + 1, Len(writer.out))

IsPrefix(p, q) == Len(p) <= Len(q) /\ SubSeq(q, 1, Len(p)) = p

AsyncEncodeReturned == kind = "async" /\ last.op \in EncodeOps

\* C1: after a failed AsyncEncoder::encode / encode_sync the bytes of the failed
\* command are gone, so every later encode call hands the writer only bytes of
\* its own command: a prefix of them when it fails, all of them when it succeeds.
C1_FailedBytesNeverResent ==
    AsyncEncodeReturned =>
        /\ IsPrefix(Handed, Encodable_encode(last.msg))
        /\ (last.res = "Ok" => Handed = Encodable_encode(last.msg))

\* C2: when every call so far was a successful encode, the writer holds exactly
\* encode(m1) ++ ... ++ encode(mn), in call order.
C2_InOrderContiguous == seqOk => writer.out = expect

C2_Witness ==
    /\ seqOk /\ ops = 2 /\ kind = "async"
    /\ last.msg = give_mod(A, A)
    /\ Len(expect) > Len(Encodable_encode(last.msg))

\* C4: AsyncEncoder::into_inner with an empty buffer returns the writer untouched;
\* with a non-empty buffer an Ok return means the whole buffer was written and
\* then flushed, and a failed write or flush is returned as the error.
C4_IntoInnerDrains ==
    (kind = "async" /\ last.op = "into_inner") =>
        /\ ~alive
        /\ IF last.preData = <<>>
           THEN last.res = "Ok" /\ writer = last.pre
           ELSE /\ (last.res = "Ok") = (last.fail = "none")
                /\ last.res = "Ok" =>
                     /\ writer.out = last.pre.out \o last.preData
                     /\ writer.flushCalls = last.pre.flushCalls + 1
                     /\ writer.flushed = Len(writer.out)

C4_Witness ==
    /\ kind = "async" /\ last.op = "into_inner"
    /\ last.preData # <<>> /\ last.res = "Ok"

\* C5: Encoder::encode returning Ok wrote all bytes of msg and then flushed; a
\* failed write is returned without any flush; a failed flush is returned.
C5_WriteThenFlush ==
    (kind = "sync" /\ last.op = "encode") =>
        /\ last.res = "Ok" =>
             /\ writer.out = last.pre.out \o Encodable_encode(last.msg)
             /\ writer.flushCalls = last.pre.flushCalls + 1
             /\ writer.flushed = Len(writer.out)
        /\ last.fail = "write" =>
             /\ last.res = "Err"
             /\ writer.flushCalls = last.pre.flushCalls
             /\ writer.flushed = last.pre.flushed
        /\ last.fail = "flush" => last.res = "Err"

C5_Witness ==
    /\ kind = "sync" /\ last.op = "encode" /\ last.res = "Ok"
    /\ last.msg = give_mod(A, A) /\ Len(last.pre.out) > 0

\* C7: a built-in Encodable (str, String, byte slices) encoded through an Encoder
\* reaches the writer as exactly its own bytes, nothing appended.
C7_BuiltinVerbatim ==
    (kind = "sync" /\ last.op = "encode" /\ last.msg.kind = "Bytes" /\ last.res = "Ok")
        => Handed = last.msg.bytes

C7_Witness ==
    /\ kind = "sync" /\ last.op = "encode" /\ last.res = "Ok"
    /\ last.msg = Bytes(<<"a", "\n">>)

\* C9: after a successful AsyncEncoder::encode / encode_sync the buffer is empty,
\* pos is 0, and everything the buffer held (old bytes and the new message) has
\* been written.
C9_DrainedPerCall ==
    (AsyncEncodeReturned /\ last.res = "Ok") =>
        /\ data = <<>>
        /\ pos = 0
        /\ Handed = last.preData \o Encodable_encode(last.msg)

C9_Witness ==
    /\ AsyncEncodeReturned /\ last.res = "Ok" /\ last.op = "encode_sync"
    /\ last.preData # <<>>

\* C10: pos never exceeds the length of data, so data[pos..] is in range.
C10_PosInRange == pos <= Len(data)

C10_Witness ==
    /\ AsyncEncodeReturned /\ last.res = "Err"
    /\ Len(data) > 0 /\ pos <= Len(data)

(***************************************************************************)
(* Properties of the commands (SpecCmd).                                   *)
(***************************************************************************)
Encoded == wire # <<>>

Subcommand(fn) ==
    CASE fn = "give_mod" -> SLASH_MOD
      [] fn = "unmod" -> SLASH_UNMOD
      [] fn = "unvip" -> SLASH_UNVIP
      [] fn = "raid" -> SLASH_RAID

\* The channel without its leading '#', if it has one.
Body(c) == IF starts_with_hash(c) THEN Tail(c) ELSE c

NoLF(s) == \A i \in 1..Len(s) : s[i] # "\n"

\* One line: the bytes end in \r\n and hold no other line feed.
OneLine(w) ==
    /\ Len(w) >= 2
    /\ SubSeq(w, Len(w) - 1, Len(w)) = CRLF
    /\ \A i \in 1..(Len(w) - 1) : w[i] # "\n"

CommandForm ==
    wire = PRIVMSG_SP \o HASH \o Body(cmdIn.channel) \o SP_COLON
             \o Subcommand(cmdIn.fn) \o SP \o cmdIn.arg \o CRLF

====
